---- MODULE Spec2Model ----
(***************************************************************************)
(* A model of streamlit_websocket_client: the Python bridge                *)
(* (websocket_client.py: WebSocketConnection and connect()), the Streamlit *)
(* session state it reads and writes, and the frontend connection          *)
(* controller behind the declared component.  The frontend is not part of  *)
(* the Python sources; its state machine follows spec.md, section 4.1.     *)
(*                                                                         *)
(* Python values are tagged records [t, v]:                                *)
(*   None            [t |-> "none", v |-> <<>>]                            *)
(*   str             [t |-> "str",  v |-> tuple of characters]             *)
(*   int             [t |-> "int",  v |-> <<n>>]                           *)
(*   list            [t |-> "list", v |-> tuple of values]                 *)
(*   dict            [t |-> "dict", v |-> tuple of <<key, value>> pairs]   *)
(*   object reference[t |-> "ref",  v |-> <<heap id>>]                     *)
(* Strings whose characters the code inspects or joins (URLs, keys,        *)
(* session-state keys, payloads, JSON text) are tuples of characters.      *)
(* State names and error texts, which the code only copies and compares    *)
(* whole, are written as a one-element tuple holding the word.             *)
(***************************************************************************)
EXTENDS Integers, Sequences, FiniteSets, TLC

VARIABLES
    session_state,  \* st.session_state: session key (str) -> value
    heap,           \* live WebSocketConnection objects: id -> fields
    nextId,         \* next object id to allocate
    latest,         \* per key, the snapshot the host script holds (ref or None)
    ctrl,           \* per key, the frontend controller behind the component
    lastCall,       \* history: the connect() call just made and its outcome
    owner,          \* history: per session_state entry, the key it was written for
    queued,         \* history: per key, its send slot: "empty" (never written),
                    \* "queued" (written since connect() last read it), "consumed"
    lastSend,       \* history: the send() call just made
    lastRead        \* history: the is_open() or to_dict() call just made

vars ==
    <<session_state, heap, nextId, latest, ctrl, lastCall, owner, queued, lastSend,
      lastRead>>

----------------------------------------------------------------------------
(* Bounds *)

\* connect() calls that build a connection object, per run of the model
MaxObjects == 3
MaxObjectsKeyed == 4
\* The max_reconnect_attempts the host passes
MaxAttempts == 1
\* items of a list payload, pairs of a dict payload
MaxItems == 2

----------------------------------------------------------------------------
(* Python values *)

None == [t |-> "none", v |-> <<>>]
Str(s) == [t |-> "str", v |-> s]
IntV(n) == [t |-> "int", v |-> <<n>>]
BoolV(b) == [t |-> "bool", v |-> <<b>>]
ListV(s) == [t |-> "list", v |-> s]
DictV(s) == [t |-> "dict", v |-> s]
Ref(i) == [t |-> "ref", v |-> <<i>>]

IsStr(x) == x.t = "str"

\* Python truthiness, as used by `not url`, `not key`, `headers or {}`,
\* `conn._send_queue` in a condition.
Truthy(x) ==
    CASE x.t = "none" -> FALSE
      [] x.t = "int"  -> x.v[1] # 0
      [] x.t = "bool" -> x.v[1]
      [] x.t = "ref"  -> TRUE
      [] OTHER        -> Len(x.v) > 0

\* str.startswith(prefix)
StartsWith(s, p) == Len(s) >= Len(p) /\ SubSeq(s, 1, Len(p)) = p

\* dict.get(name, default)
RECURSIVE DictGetFrom(_, _, _, _)
DictGetFrom(pairs, i, name, dflt) ==
    IF i > Len(pairs) THEN dflt
    ELSE IF pairs[i][1] = name THEN pairs[i][2]
    ELSE DictGetFrom(pairs, i + 1, name, dflt)

DictGet(d, name, dflt) == DictGetFrom(d.v, 1, name, dflt)

\* Finite maps (session_state, heap)
MapPut(f, k, x) == [y \in DOMAIN f \cup {k} |-> IF y = k THEN x ELSE f[y]]
MapDel(f, k) == [y \in DOMAIN f \ {k} |-> f[y]]
MapOnly(f, S) == [y \in DOMAIN f \cap S |-> f[y]]

----------------------------------------------------------------------------
(* Text used by the program and by the inputs *)

S_PREFIX == <<"_", "w", "e", "b", "s", "o", "c", "k", "e", "t", "_">>
S_SEND == <<"_", "s", "e", "n", "d">>
S_WS == <<"w", "s", ":", "/", "/">>
S_WSS == <<"w", "s", "s", ":", "/", "/">>

CONNECTING == Str(<<"CONNECTING">>)
OPEN == Str(<<"OPEN">>)
CLOSING == Str(<<"CLOSING">>)
CLOSED == Str(<<"CLOSED">>)
ERROR == Str(<<"ERROR">>)

F_STATE == Str(<<"s", "t", "a", "t", "e">>)
F_LAST_MESSAGE == Str(<<"l", "a", "s", "t", "_", "m", "e", "s", "s", "a", "g", "e">>)
F_ERROR == Str(<<"e", "r", "r", "o", "r">>)
F_READY_STATE == Str(<<"r", "e", "a", "d", "y", "_", "s", "t", "a", "t", "e">>)

----------------------------------------------------------------------------
(* json.dumps, for the payload shapes send() accepts: a list of small     *)
(* integers, a dict from text keys to small integers.  Python's default   *)
(* separators are ", " and ": ".                                          *)

Digits == <<"0", "1", "2", "3", "4", "5", "6", "7", "8", "9">>

\* Inside a JSON string a quote or a backslash is written after a backslash.
RECURSIVE EscapeFrom(_, _)
EscapeFrom(s, i) ==
    IF i > Len(s) THEN <<>>
    ELSE (IF s[i] \in {"\"", "\\"} THEN <<"\\", s[i]>> ELSE <<s[i]>>)
         \o EscapeFrom(s, i + 1)

DumpsScalar(x) ==
    CASE x.t = "int" -> <<Digits[x.v[1] + 1]>>
      [] x.t = "str" -> <<"\"">> \o EscapeFrom(x.v, 1) \o <<"\"">>
      [] OTHER       -> <<"n", "u", "l", "l">>

RECURSIVE DumpsItems(_, _)
DumpsItems(items, i) ==
    IF i > Len(items) THEN <<>>
    ELSE (IF i > 1 THEN <<",", " ">> ELSE <<>>)
         \o DumpsScalar(items[i]) \o DumpsItems(items, i + 1)

RECURSIVE DumpsPairs(_, _)
DumpsPairs(pairs, i) ==
    IF i > Len(pairs) THEN <<>>
    ELSE (IF i > 1 THEN <<",", " ">> ELSE <<>>)
         \o DumpsScalar(pairs[i][1]) \o <<":", " ">> \o DumpsScalar(pairs[i][2])
         \o DumpsPairs(pairs, i + 1)

JsonDumps(x) ==
    CASE x.t = "list" -> Str(<<"[">> \o DumpsItems(x.v, 1) \o <<"]">>)
      [] x.t = "dict" -> Str(<<"{">> \o DumpsPairs(x.v, 1) \o <<"}">>)
      [] OTHER        -> Str(DumpsScalar(x))

----------------------------------------------------------------------------
(* json.loads, for the same shapes: the text is read left to right.  A    *)
(* parse result is [ok, v, i]: whether it succeeded, the value, and the   *)
(* position after it.                                                     *)

ParseFail == [ok |-> FALSE, v |-> None, i |-> 0]

DigitValue(c) == CHOOSE n \in 0..9 : Digits[n + 1] = c
IsDigit(c) == \E n \in 0..9 : Digits[n + 1] = c

RECURSIVE SkipSpaces(_, _)
SkipSpaces(s, i) == IF i <= Len(s) /\ s[i] = " " THEN SkipSpaces(s, i + 1) ELSE i

\* The characters of a string, from position i (after the opening quote) to
\* the closing quote.
RECURSIVE ParseChars(_, _, _)
ParseChars(s, i, acc) ==
    IF i > Len(s) THEN ParseFail
    ELSE IF s[i] = "\"" THEN [ok |-> TRUE, v |-> Str(acc), i |-> i + 1]
    ELSE IF s[i] = "\\"
         THEN IF i + 1 > Len(s) THEN ParseFail
              ELSE ParseChars(s, i + 2, Append(acc, s[i + 1]))
    ELSE ParseChars(s, i + 1, Append(acc, s[i]))

RECURSIVE ParseDigits(_, _, _)
ParseDigits(s, i, n) ==
    IF i <= Len(s) /\ IsDigit(s[i]) THEN ParseDigits(s, i + 1, 10 * n + DigitValue(s[i]))
    ELSE [ok |-> TRUE, v |-> IntV(n), i |-> i]

ParseScalar(s, i0) ==
    LET i == SkipSpaces(s, i0) IN
    IF i > Len(s) THEN ParseFail
    ELSE IF s[i] = "\"" THEN ParseChars(s, i + 1, <<>>)
    ELSE IF IsDigit(s[i]) THEN ParseDigits(s, i, 0)
    ELSE ParseFail

\* After "[" or after a comma: the remaining items and the closing "]".
RECURSIVE ParseItems(_, _, _)
ParseItems(s, i0, acc) ==
    LET item == ParseScalar(s, i0) IN
    IF ~item.ok THEN ParseFail
    ELSE LET j == SkipSpaces(s, item.i) IN
         IF j > Len(s) THEN ParseFail
         ELSE IF s[j] = "]" THEN [ok |-> TRUE, v |-> ListV(Append(acc, item.v)), i |-> j + 1]
         ELSE IF s[j] = "," THEN ParseItems(s, j + 1, Append(acc, item.v))
         ELSE ParseFail

\* After "{" or after a comma: the remaining "key": value pairs and the closing "}".
RECURSIVE ParsePairs(_, _, _)
ParsePairs(s, i0, acc) ==
    LET k == ParseScalar(s, i0) IN
    IF ~k.ok \/ k.v.t # "str" THEN ParseFail
    ELSE LET c == SkipSpaces(s, k.i) IN
         IF c > Len(s) \/ s[c] # ":" THEN ParseFail
         ELSE LET x == ParseScalar(s, c + 1) IN
              IF ~x.ok THEN ParseFail
              ELSE LET j == SkipSpaces(s, x.i)
                       pairs == Append(acc, <<k.v, x.v>>)
                   IN  IF j > Len(s) THEN ParseFail
                       ELSE IF s[j] = "}" THEN [ok |-> TRUE, v |-> DictV(pairs), i |-> j + 1]
                       ELSE IF s[j] = "," THEN ParsePairs(s, j + 1, pairs)
                       ELSE ParseFail

ParseValue(s, i0) ==
    LET i == SkipSpaces(s, i0) IN
    IF i > Len(s) THEN ParseFail
    ELSE IF s[i] = "["
         THEN IF SkipSpaces(s, i + 1) <= Len(s) /\ s[SkipSpaces(s, i + 1)] = "]"
              THEN [ok |-> TRUE, v |-> ListV(<<>>), i |-> SkipSpaces(s, i + 1) + 1]
              ELSE ParseItems(s, i + 1, <<>>)
    ELSE IF s[i] = "{"
         THEN IF SkipSpaces(s, i + 1) <= Len(s) /\ s[SkipSpaces(s, i + 1)] = "}"
              THEN [ok |-> TRUE, v |-> DictV(<<>>), i |-> SkipSpaces(s, i + 1) + 1]
              ELSE ParsePairs(s, i + 1, <<>>)
    ELSE ParseScalar(s, i)

\* json.loads(text): the value, or a failure (ValueError) when the text is not
\* one JSON value followed by nothing but spaces.
JsonLoads(text) ==
    LET r == ParseValue(text.v, 1) IN
    IF r.ok /\ SkipSpaces(text.v, r.i) > Len(text.v) THEN r ELSE ParseFail

----------------------------------------------------------------------------
(* class WebSocketConnection *)

\* The dataclass constructor; _send_queue takes its default, None.
WebSocketConnection(state, last_message, error, ready_state, key) ==
    [state |-> state, last_message |-> last_message, error |-> error,
     ready_state |-> ready_state, _key |-> key, _send_queue |-> None]

\* A send() that encodes lists only.
Encode_ListsOnly(message) ==
    IF message.t = "list" THEN JsonDumps(message) ELSE message

\* send(): a dict or list is JSON-encoded, anything else is kept as it is.
Encode(message) ==
    IF message.t \in {"dict", "list"} THEN JsonDumps(message) ELSE message

\* A send() that drops the payload unless the connection is open.
SendEffect_OnlyWhenOpen(conn, message) ==
    IF conn.state = OPEN THEN [conn EXCEPT !._send_queue = Encode(message)] ELSE conn

\* A send() that queues: it keeps a payload that is still waiting.
SendEffect_KeepsFirst(conn, message) ==
    IF conn._send_queue = None THEN [conn EXCEPT !._send_queue = Encode(message)]
    ELSE conn

\* send(): the object after the call.
SendEffect(conn, message) == [conn EXCEPT !._send_queue = Encode(message)]

\* is_open()
IsOpen(conn) == conn.state = OPEN /\ conn.ready_state = IntV(1)

\* is_open(): the object after the call; the method assigns nothing.
IsOpenSelf(conn) == conn

\* A to_dict() that leaves the last message out.
ToDict_NoMessage(conn) ==
    DictV(<< <<F_STATE, conn.state>>, <<F_ERROR, conn.error>>,
             <<F_READY_STATE, conn.ready_state>> >>)

\* to_dict(): dataclasses.asdict, field by field in declaration order.
ToDict(conn) ==
    DictV(<< <<F_STATE, conn.state>>, <<F_LAST_MESSAGE, conn.last_message>>,
             <<F_ERROR, conn.error>>, <<F_READY_STATE, conn.ready_state>>,
             <<Str(<<"_", "k", "e", "y">>), conn._key>>,
             <<Str(<<"_", "s", "e", "n", "d", "_", "q", "u", "e", "u", "e">>),
               conn._send_queue>> >>)

\* to_dict(): the object after the call; asdict copies and assigns nothing.
ToDictSelf(conn) == conn

----------------------------------------------------------------------------
(* Inputs *)

U_WS == Str(S_WS \o <<"a">>)
U_WSS == Str(S_WSS \o <<"a">>)
U_MALFORMED ==
    Str(<<"n", "o", "t", "-", "a", "-", "v", "a", "l", "i", "d", "-", "u", "r", "l">>)
EMPTY == Str(<<>>)

K_X == Str(<<"x">>)
K_X_SEND == Str(<<"x">> \o S_SEND)

\* Valid (url, key) arguments for one key.
ValidCalls == {U_WS, U_WSS} \X {K_X}
\* Two keys, one a textual extension of the other.
TwoKeys == {K_X, K_X_SEND}
\* Valid arguments for the two keys, and arguments with a bad url or a bad key.
BadUrls == {U_MALFORMED, EMPTY, IntV(42)}
BadKeys == {EMPTY, IntV(7)}
MixedCalls == ({U_WS} \X TwoKeys) \cup (BadUrls \X {K_X}) \cup ({U_WS} \X BadKeys)

P_TEXT == Str(<<"h", "i">>)
P_DICT == DictV(<< <<Str(<<"a">>), IntV(1)>> >>)
P_LIST == ListV(<<IntV(1), IntV(2)>>)
Payloads == {P_TEXT, P_DICT}

\* What the transport can deliver: plain text, and the JSON text of a dict.
Messages == {P_TEXT, JsonDumps(P_DICT)}
ErrorTexts == {Str(<<"Connection refused">>)}
\* str(e) of an exception raised while invoking the component.
ComponentFailure == Str(<<"component failed">>)

----------------------------------------------------------------------------
(* The frontend controller behind the component (spec.md, sections 3, 4.1) *)

\* readyState: the numeric mirror of the phase.
ReadyStateOf(phase) ==
    CASE phase = CONNECTING -> IntV(0)
      [] phase = OPEN       -> IntV(1)
      [] phase = CLOSING    -> IntV(2)
      [] OTHER              -> IntV(3)

\* The controller of a key before the component is first rendered for it.
NoController ==
    [exists |-> FALSE, published |-> FALSE, phase |-> CONNECTING,
     lastMessage |-> None, lastError |-> None, attempt |-> 0, timer |-> FALSE,
     pendingOutbound |-> None, wire |-> None,
     autoReconnect |-> TRUE, maxReconnectAttempts |-> 0,
     \* after disposal: the timer it cancelled and the payload it discarded
     disposed |-> FALSE, cancelled |-> FALSE, discarded |-> None]

\* The snapshot record the controller publishes.
Snapshot(c) ==
    DictV(<< <<F_STATE, c.phase>>, <<F_LAST_MESSAGE, c.lastMessage>>,
             <<F_ERROR, c.lastError>>, <<F_READY_STATE, ReadyStateOf(c.phase)>> >>)

\* The component's value as the host sees it: absent until a snapshot is published.
ComponentValue(c) == IF c.published THEN Snapshot(c) ELSE None

\* open(): the transport is created with the configuration of the first render.
OpenController(c, auto_reconnect, max_reconnect_attempts) ==
    IF c.exists THEN c
    ELSE [c EXCEPT !.exists = TRUE, !.phase = CONNECTING, !.disposed = FALSE,
                   !.cancelled = FALSE, !.discarded = None,
                   !.autoReconnect = auto_reconnect,
                   !.maxReconnectAttempts = max_reconnect_attempts]

\* send(payload): transmitted at once when Open, held as the one pending payload otherwise.
ControllerSend(c, payload) ==
    IF payload = None THEN c
    ELSE IF c.phase = OPEN THEN [c EXCEPT !.wire = payload]
    ELSE [c EXCEPT !.pendingOutbound = payload]

\* One render of the component with connect()'s arguments.
Render(c, kwargs) ==
    ControllerSend(OpenController(c, kwargs.auto_reconnect.v[1],
                                  kwargs.max_reconnect_attempts.v[1]),
                   kwargs.send_message)

\* Structured values the transport can carry as JSON text.
JsonUniverse == {P_DICT, P_LIST}

\* Decoding a received text: JSON when it parses, the raw text otherwise.

Decode(text) == IF JsonLoads(text).ok THEN JsonLoads(text).v ELSE text

CanReconnect(c) == c.autoReconnect /\ c.attempt < c.maxReconnectAttempts

OnOpen(c) ==
    [c EXCEPT !.phase = OPEN, !.attempt = 0, !.lastError = None, !.published = TRUE,
              !.wire = IF c.pendingOutbound # None THEN c.pendingOutbound ELSE c.wire,
              !.pendingOutbound = None]

OnMessage(c, text) == [c EXCEPT !.lastMessage = Decode(text), !.published = TRUE]

OnError(c, e) ==
    [c EXCEPT !.phase = ERROR, !.lastError = e, !.published = TRUE,
              !.timer = CanReconnect(c)]

OnClose(c) == [c EXCEPT !.phase = CLOSED, !.published = TRUE, !.timer = CanReconnect(c)]

OnReconnectTimer(c) ==
    [c EXCEPT !.attempt = c.attempt + 1, !.phase = CONNECTING, !.timer = FALSE,
              !.published = TRUE]

\* A dispose that closes the transport but leaves the reconnect timer pending.
OnDispose_KeepsTimer(c) ==
    [NoController EXCEPT !.disposed = TRUE, !.phase = CLOSED, !.wire = c.wire,
                         !.cancelled = c.timer, !.discarded = c.pendingOutbound,
                         !.timer = c.timer]

\* dispose(key): the transport is closed, the reconnect timer cancelled, the
\* pending payload dropped, the key's state destroyed; what the transport has
\* carried stays as it was.
OnDispose(c) ==
    [NoController EXCEPT !.disposed = TRUE, !.phase = CLOSED, !.wire = c.wire,
                         !.cancelled = c.timer, !.discarded = c.pendingOutbound]

----------------------------------------------------------------------------
(* connect() *)

E_URL_EMPTY == Str(<<"URL must be a non-empty string">>)
E_URL_SCHEME == Str(<<"URL must start with ws:// or wss://">>)
E_KEY_EMPTY == Str(<<"Key must be a non-empty string">>)

\* A validation that does not look at the scheme.
ValidationError_NoScheme(url, key) ==
    IF ~Truthy(url) \/ ~IsStr(url) THEN E_URL_EMPTY
    ELSE IF ~Truthy(key) \/ ~IsStr(key) THEN E_KEY_EMPTY
    ELSE None

\* Lines 94-103: the ValueError connect() raises for its arguments, or None.
ValidationError(url, key) ==
    IF ~Truthy(url) \/ ~IsStr(url) THEN E_URL_EMPTY
    ELSE IF ~(StartsWith(url.v, S_WS) \/ StartsWith(url.v, S_WSS)) THEN E_URL_SCHEME
    ELSE IF ~Truthy(key) \/ ~IsStr(key) THEN E_KEY_EMPTY
    ELSE None

\* Lines 106-107
SessionKey(key) == Str(S_PREFIX \o key.v)
SendKey(key) == Str(SessionKey(key).v \o S_SEND)

\* Lines 110-112: the value read from the send slot, if there is one.
ReadSendMessage(ss, send_key) ==
    IF send_key \in DOMAIN ss THEN ss[send_key] ELSE None

\* A read that empties the send slot but leaves its entry in session state.
ClearSendQueue_Emptied(ss, send_key) ==
    IF send_key \in DOMAIN ss THEN MapPut(ss, send_key, None) ELSE ss

\* A read that leaves the send slot as it was.
ClearSendQueue_Kept(ss, send_key) == ss

\* Lines 111-114: the send slot is cleared after reading.
ClearSendQueue(ss, send_key) ==
    IF send_key \in DOMAIN ss THEN MapDel(ss, send_key) ELSE ss

\* An error connection that drops the failure's text.
ErrorConnection_NoText(key, e) == WebSocketConnection(ERROR, None, None, IntV(3), key)

\* An error connection that keeps the default ready_state.
ErrorConnection_Ready0(key, e) == WebSocketConnection(ERROR, None, e, IntV(0), key)

\* Lines 130-138: the connection returned when invoking the component raised e.
ErrorConnection(key, e) == WebSocketConnection(ERROR, None, e, IntV(3), key)

\* A first connection that reports the socket as closed.
ConnectingConnection_Closed(key) == WebSocketConnection(CLOSED, None, None, IntV(3), key)

\* Lines 141-148: the connection returned when the component has no value yet.
ConnectingConnection(key) == WebSocketConnection(CONNECTING, None, None, IntV(0), key)

\* A parse that looks ready_state up under the wrong name (readyState).
FromComponentValue_CamelCase(component_value, key) ==
    WebSocketConnection(DictGet(component_value, F_STATE, CONNECTING),
                        DictGet(component_value, F_LAST_MESSAGE, None),
                        DictGet(component_value, F_ERROR, None),
                        DictGet(component_value,
                                Str(<<"r", "e", "a", "d", "y", "S", "t", "a", "t", "e">>),
                                IntV(0)),
                        key)

\* A parse that reads the error from the record's state.
FromComponentValue_ErrorFromState(component_value, key) ==
    WebSocketConnection(DictGet(component_value, F_STATE, CONNECTING),
                        DictGet(component_value, F_LAST_MESSAGE, None),
                        DictGet(component_value, F_STATE, None),
                        DictGet(component_value, F_READY_STATE, IntV(0)),
                        key)

\* A parse that drops the record's last_message.
FromComponentValue_NoMessage(component_value, key) ==
    WebSocketConnection(DictGet(component_value, F_STATE, CONNECTING),
                        None,
                        DictGet(component_value, F_ERROR, None),
                        DictGet(component_value, F_READY_STATE, IntV(0)),
                        key)

\* A parse that takes a record without a state for a closed connection.
FromComponentValue_DefaultClosed(component_value, key) ==
    WebSocketConnection(DictGet(component_value, F_STATE, CLOSED),
                        DictGet(component_value, F_LAST_MESSAGE, None),
                        DictGet(component_value, F_ERROR, None),
                        DictGet(component_value, F_READY_STATE, IntV(3)),
                        key)

\* Lines 151-157: the connection built from the component's record.
FromComponentValue(component_value, key) ==
    WebSocketConnection(DictGet(component_value, F_STATE, CONNECTING),
                        DictGet(component_value, F_LAST_MESSAGE, None),
                        DictGet(component_value, F_ERROR, None),
                        DictGet(component_value, F_READY_STATE, IntV(0)),
                        key)

\* An optional argument the caller leaves out.
Absent == [t |-> "absent", v |-> <<>>]

\* The defaults of connect()'s signature.
D_AUTO_RECONNECT == BoolV(TRUE)
D_RECONNECT_INTERVAL == IntV(3000)
D_MAX_RECONNECT_ATTEMPTS == IntV(5)

NoOptions ==
    [headers |-> Absent, protocols |-> Absent, auto_reconnect |-> Absent,
     reconnect_interval |-> Absent, max_reconnect_attempts |-> Absent]

\* The parameters of a call: what the caller gave, the default where it gave nothing.
Signature(given) ==
    [headers |-> IF given.headers = Absent THEN None ELSE given.headers,
     protocols |-> IF given.protocols = Absent THEN None ELSE given.protocols,
     auto_reconnect |-> IF given.auto_reconnect = Absent THEN D_AUTO_RECONNECT
                        ELSE given.auto_reconnect,
     reconnect_interval |-> IF given.reconnect_interval = Absent
                            THEN D_RECONNECT_INTERVAL ELSE given.reconnect_interval,
     max_reconnect_attempts |-> IF given.max_reconnect_attempts = Absent
                                THEN D_MAX_RECONNECT_ATTEMPTS
                                ELSE given.max_reconnect_attempts]

NoKwargs ==
    [url |-> None, key |-> None, headers |-> None, protocols |-> None,
     auto_reconnect |-> None, reconnect_interval |-> None,
     max_reconnect_attempts |-> None, send_message |-> None]

\* A component call that always passes the default max_reconnect_attempts.
ComponentKwargs_DefaultAttempts(url, key, opts, send_message) ==
    [url |-> url,
     key |-> key,
     headers |-> IF Truthy(opts.headers) THEN opts.headers ELSE DictV(<<>>),
     protocols |-> IF Truthy(opts.protocols) THEN opts.protocols ELSE ListV(<<>>),
     auto_reconnect |-> opts.auto_reconnect,
     reconnect_interval |-> opts.reconnect_interval,
     max_reconnect_attempts |-> D_MAX_RECONNECT_ATTEMPTS,
     send_message |-> send_message]

\* A component call that always passes the default auto_reconnect.
ComponentKwargs_DefaultAuto(url, key, opts, send_message) ==
    [url |-> url,
     key |-> key,
     headers |-> IF Truthy(opts.headers) THEN opts.headers ELSE DictV(<<>>),
     protocols |-> IF Truthy(opts.protocols) THEN opts.protocols ELSE ListV(<<>>),
     auto_reconnect |-> D_AUTO_RECONNECT,
     reconnect_interval |-> opts.reconnect_interval,
     max_reconnect_attempts |-> opts.max_reconnect_attempts,
     send_message |-> send_message]

\* A component call with reconnect_interval and max_reconnect_attempts swapped.
ComponentKwargs_Swapped(url, key, opts, send_message) ==
    [url |-> url,
     key |-> key,
     headers |-> IF Truthy(opts.headers) THEN opts.headers ELSE DictV(<<>>),
     protocols |-> IF Truthy(opts.protocols) THEN opts.protocols ELSE ListV(<<>>),
     auto_reconnect |-> opts.auto_reconnect,
     reconnect_interval |-> opts.max_reconnect_attempts,
     max_reconnect_attempts |-> opts.reconnect_interval,
     send_message |-> send_message]

\* The keyword arguments of the component call (default and height, which the
\* model keeps at None and 0, are left out).
ComponentKwargs(url, key, opts, send_message) ==
    [url |-> url,
     key |-> key,
     headers |-> IF Truthy(opts.headers) THEN opts.headers ELSE DictV(<<>>),
     protocols |-> IF Truthy(opts.protocols) THEN opts.protocols ELSE ListV(<<>>),
     auto_reconnect |-> opts.auto_reconnect,
     reconnect_interval |-> opts.reconnect_interval,
     max_reconnect_attempts |-> opts.max_reconnect_attempts,
     send_message |-> send_message]

\* A test of line 163 that always finds something queued.
HasOutgoing_Always(conn) == TRUE

\* Line 163: hasattr(conn, '_send_queue') and conn._send_queue
HasOutgoing(conn) == Truthy(conn._send_queue)

\* The whole call, given the session state it finds, whether invoking the
\* component raises, and the value the component returns otherwise.
\*   outcome: "raised" (ValueError), "returned", or "rerun" (st.rerun() ends the run)
\*   invoked: the component was called; stored: line 160 ran; requeued: line 164 ran
ConnectCall(url, key, opts, ss, failed, component_value) ==
    LET err == ValidationError(url, key) IN
    IF err # None THEN
        [outcome |-> "raised", exc |-> err, invoked |-> FALSE, send_message |-> None,
         kwargs |-> NoKwargs,
         conn |-> ConnectingConnection(key), alloc |-> FALSE, stored |-> FALSE,
         requeued |-> FALSE, session |-> ss]
    ELSE
        LET session_key == SessionKey(key)
            send_key == SendKey(key)
            send_message == ReadSendMessage(ss, send_key)
            ss1 == ClearSendQueue(ss, send_key)
            base == [outcome |-> "returned", exc |-> None, invoked |-> TRUE,
                     send_message |-> send_message,
                     kwargs |-> ComponentKwargs(url, key, opts, send_message),
                     conn |-> ConnectingConnection(key),
                     alloc |-> TRUE, stored |-> FALSE, requeued |-> FALSE,
                     session |-> ss1]
        IN  IF failed THEN [base EXCEPT !.conn = ErrorConnection(key, ComponentFailure)]
            ELSE IF component_value = None THEN base
            ELSE LET conn == FromComponentValue(component_value, key) IN
                 IF HasOutgoing(conn)
                 THEN [base EXCEPT !.outcome = "rerun", !.conn = conn, !.stored = TRUE,
                                   !.requeued = TRUE]
                 ELSE [base EXCEPT !.conn = conn, !.stored = TRUE]

----------------------------------------------------------------------------
(* State *)

NoCall ==
    [url |-> None, key |-> None, outcome |-> "none", exc |-> None, invoked |-> FALSE,
     failed |-> FALSE, send_message |-> None, value_absent |-> FALSE,
     result |-> None, session_unchanged |-> TRUE, read_owner |-> None,
     slot |-> "empty", host_sent |-> None, given |-> NoOptions, created |-> FALSE,
     kwargs |-> NoKwargs, value |-> None, stored_before |-> None]

\* No object: the fields of a connection, all None.
NoObject == WebSocketConnection(None, None, None, None, None)

NoSend == [conn |-> None, message |-> None, before |-> None, was |-> NoObject]

NoRead == [conn |-> None, op |-> "none", result |-> None, before |-> None,
           previous |-> None]

\* A fresh session: no connect() call has been made for any of the keys.
InitKeys(keys) ==
    /\ session_state = <<>>
    /\ heap = <<>>
    /\ nextId = 1
    /\ latest = [k \in keys |-> None]
    /\ ctrl = [k \in keys |-> NoController]
    /\ lastCall = NoCall
    /\ owner = <<>>
    /\ queued = [k \in keys |-> "empty"]
    /\ lastSend = NoSend
    /\ lastRead = NoRead

\* The objects the host can still reach: through its own variables or session state.
Live(ss, lt) ==
    {ss[s].v[1] : s \in {s \in DOMAIN ss : ss[s].t = "ref"}}
    \cup {lt[k].v[1] : k \in {k \in DOMAIN lt : lt[k].t = "ref"}}

----------------------------------------------------------------------------
(* Host operations *)

\* conn = connect(url, key, ...) with the optional arguments in given, when the
\* component call returns value.  default and height keep their defaults (no
\* caller in the repository passes default, so the component's value is None
\* until the frontend reports a state record).
\* failed: invoking the component raises.  limit: the bound on objects built.
\* The host keeps the returned object as its connection for the key; a rerun
\* restarts the script, which then holds no connection.  Objects neither the
\* host nor session state refers to any more are dropped from the heap.
ConnectWith(url, key, given, failed, limit, value) ==
    LET good == key \in DOMAIN ctrl
        c == IF good THEN ctrl[key] ELSE NoController
        r == ConnectCall(url, key, Signature(given), session_state, failed, value)
        id == nextId
        session_key == SessionKey(key)
        send_key == SendKey(key)
        ss2 == IF r.stored THEN MapPut(r.session, session_key, Ref(id)) ELSE r.session
        ss3 == IF r.requeued THEN MapPut(ss2, send_key, r.conn._send_queue) ELSE ss2
        written == (IF r.stored THEN {session_key} ELSE {})
                   \cup (IF r.requeued THEN {send_key} ELSE {})
        lt == CASE r.outcome = "returned" -> [latest EXCEPT ![key] = Ref(id)]
                [] r.outcome = "rerun"    -> [k \in DOMAIN latest |-> None]
                [] OTHER                  -> latest
        live == Live(ss3, lt)
    IN  /\ r.alloc => nextId <= limit
        /\ failed => r.invoked
        /\ session_state' = ss3
        /\ heap' = MapOnly(IF r.alloc THEN MapPut(heap, id, r.conn) ELSE heap, live)
        /\ lastSend' = NoSend
        /\ lastRead' = NoRead
        /\ nextId' = IF r.alloc THEN nextId + 1 ELSE nextId
        /\ latest' = lt
        /\ ctrl' = IF r.invoked /\ ~failed
                   THEN [ctrl EXCEPT ![key] = Render(c, r.kwargs)]
                   ELSE ctrl
        /\ owner' = [s \in DOMAIN ss3 |-> IF s \in written THEN key ELSE owner[s]]
        /\ queued' = [k \in DOMAIN queued |->
                        IF SendKey(k) \in written THEN "queued"
                        ELSE IF r.invoked /\ k = key /\ queued[k] = "queued"
                        THEN "consumed"
                        ELSE queued[k]]
        /\ lastCall' =
             [url |-> url, key |-> key, outcome |-> r.outcome, exc |-> r.exc,
              invoked |-> r.invoked, failed |-> failed,
              send_message |-> r.send_message,
              value_absent |-> r.invoked /\ ~failed /\ value = None,
              result |-> IF r.outcome = "returned" THEN Ref(id) ELSE None,
              session_unchanged |-> (ss3 = session_state),
              read_owner |-> IF r.invoked /\ send_key \in DOMAIN session_state
                             THEN owner[send_key] ELSE None,
              slot |-> IF good THEN queued[key] ELSE "empty",
              host_sent |-> IF good /\ latest[key].t = "ref"
                            THEN heap[latest[key].v[1]]._send_queue ELSE None,
              given |-> given,
              kwargs |-> r.kwargs,
              created |-> r.invoked /\ ~failed /\ ~c.exists,
              value |-> IF r.invoked /\ ~failed THEN value ELSE None,
              stored_before |-> IF r.invoked /\ session_key \in DOMAIN session_state
                                THEN session_state[session_key] ELSE None]

\* connect(url, key, auto_reconnect=..., max_reconnect_attempts=...): headers,
\* protocols and reconnect_interval are left out, and the component's value is
\* what the frontend controller of the key has published.
Connect(url, key, auto_reconnect, max_reconnect_attempts, failed, limit) ==
    ConnectWith(url, key,
                [NoOptions EXCEPT !.auto_reconnect = BoolV(auto_reconnect),
                                  !.max_reconnect_attempts = IntV(max_reconnect_attempts)],
                failed, limit,
                ComponentValue(IF key \in DOMAIN ctrl THEN ctrl[key] ELSE NoController))

\* conn.send(message), on the connection the host holds for a key.
\* lastSend records the call; lastCall is reset, as it describes the step just taken.
Send(key, message) ==
    /\ latest[key] # None
    /\ LET id == latest[key].v[1] IN
        /\ heap' = [heap EXCEPT ![id] = SendEffect(heap[id], message)]
        /\ lastSend' = [conn |-> latest[key], message |-> message,
                        before |-> heap[id]._send_queue, was |-> heap[id]]
    /\ lastCall' = NoCall /\ lastRead' = NoRead
    /\ UNCHANGED <<session_state, nextId, latest, ctrl, owner, queued>>

\* conn.is_open() or conn.to_dict(), on the connection the host holds for a key.
\* lastRead records the call, and the result of the same call made just before.
Read(key, op) ==
    /\ latest[key] # None
    /\ LET id == latest[key].v[1]
           conn == heap[id]
       IN
        /\ heap' = [heap EXCEPT ![id] = IF op = "is_open" THEN IsOpenSelf(conn)
                                        ELSE ToDictSelf(conn)]
        /\ lastRead' = [conn |-> latest[key], op |-> op,
                        result |-> IF op = "is_open" THEN BoolV(IsOpen(conn))
                                   ELSE ToDict(conn),
                        before |-> conn,
                        previous |-> IF lastRead.op = op /\ lastRead.conn = latest[key]
                                     THEN lastRead.result ELSE None]
    /\ lastCall' = NoCall /\ lastSend' = NoSend
    /\ UNCHANGED <<session_state, nextId, latest, ctrl, owner, queued>>

IsOpenCall(key) == Read(key, "is_open")
ToDictCall(key) == Read(key, "to_dict")

----------------------------------------------------------------------------
(* Transport events and the reconnect timer (spec.md, section 4.1) *)

TransportOpen(k) ==
    /\ ctrl[k].exists /\ ctrl[k].phase = CONNECTING
    /\ ctrl' = [ctrl EXCEPT ![k] = OnOpen(ctrl[k])]
    /\ lastCall' = NoCall /\ lastSend' = NoSend /\ lastRead' = NoRead
    /\ UNCHANGED <<session_state, heap, nextId, latest, owner, queued>>

TransportMessage(k, text) ==
    /\ ctrl[k].exists /\ ctrl[k].phase = OPEN
    /\ ctrl' = [ctrl EXCEPT ![k] = OnMessage(ctrl[k], text)]
    /\ lastCall' = NoCall /\ lastSend' = NoSend /\ lastRead' = NoRead
    /\ UNCHANGED <<session_state, heap, nextId, latest, owner, queued>>

TransportError(k, e) ==
    /\ ctrl[k].exists /\ ctrl[k].phase \in {CONNECTING, OPEN}
    /\ ctrl' = [ctrl EXCEPT ![k] = OnError(ctrl[k], e)]
    /\ lastCall' = NoCall /\ lastSend' = NoSend /\ lastRead' = NoRead
    /\ UNCHANGED <<session_state, heap, nextId, latest, owner, queued>>

TransportClose(k) ==
    /\ ctrl[k].exists /\ ctrl[k].phase \in {CONNECTING, OPEN}
    /\ ctrl' = [ctrl EXCEPT ![k] = OnClose(ctrl[k])]
    /\ lastCall' = NoCall /\ lastSend' = NoSend /\ lastRead' = NoRead
    /\ UNCHANGED <<session_state, heap, nextId, latest, owner, queued>>

ReconnectTimer(k) ==
    /\ ctrl[k].exists /\ ctrl[k].timer
    /\ ctrl' = [ctrl EXCEPT ![k] = OnReconnectTimer(ctrl[k])]
    /\ lastCall' = NoCall /\ lastSend' = NoSend /\ lastRead' = NoRead
    /\ UNCHANGED <<session_state, heap, nextId, latest, owner, queued>>

\* The key's component is torn down.
Dispose(k) ==
    /\ ctrl[k].exists
    /\ ctrl' = [ctrl EXCEPT ![k] = OnDispose(ctrl[k])]
    /\ lastCall' = NoCall /\ lastSend' = NoSend /\ lastRead' = NoRead
    /\ UNCHANGED <<session_state, heap, nextId, latest, owner, queued>>

----------------------------------------------------------------------------
(* Specification *)

HostSend == \E key \in DOMAIN latest, message \in Payloads : Send(key, message)

\* One key, valid arguments, automatic reconnection.
Init == InitKeys({K_X})

HostConnect ==
    \E call \in ValidCalls, failed \in BOOLEAN :
        Connect(call[1], call[2], TRUE, MaxAttempts, failed, MaxObjects)

Next ==
    \/ HostConnect
    \/ HostSend
    \/ \E k \in DOMAIN ctrl : TransportOpen(k)
    \/ \E k \in DOMAIN ctrl, text \in Messages : TransportMessage(k, text)
    \/ \E k \in DOMAIN ctrl, e \in ErrorTexts : TransportError(k, e)
    \/ \E k \in DOMAIN ctrl : TransportClose(k)
    \/ \E k \in DOMAIN ctrl : ReconnectTimer(k)

Spec == Init /\ [][Next]_vars

\* Two keys, valid and invalid arguments, no automatic reconnection.
InitKeyed == InitKeys(TwoKeys)

HostConnectKeyed ==
    \E call \in MixedCalls, failed \in BOOLEAN :
        Connect(call[1], call[2], FALSE, 0, failed, MaxObjectsKeyed)

HostSendKeyed == \E key \in DOMAIN latest : Send(key, P_DICT)

NextKeyed ==
    \/ HostConnectKeyed
    \/ HostSendKeyed
    \/ \E k \in DOMAIN ctrl : TransportOpen(k)

SpecKeyed == InitKeyed /\ [][NextKeyed]_vars

\* One connection object, built by its constructor as the tests build it, and
\* the methods called on it.
Seqs(S, n) == UNION {[1..m -> S] : m \in 0..n}

Scalars == {IntV(1), Str(<<"a", "\"">>)}
PairKeys == {Str(<<"a">>), Str(<<"b", "\\">>)}

ListPayloads == {ListV(q) : q \in Seqs(Scalars, MaxItems)}
DictPayloads ==
    {DictV(q) : q \in {q \in Seqs(PairKeys \X Scalars, MaxItems) :
                          \A i, j \in DOMAIN q : i # j => q[i][1] # q[j][1]}}
TextPayloads == {P_TEXT, EMPTY, JsonDumps(P_LIST), Str(<<"{", "\"">>)}

SendUniverse == TextPayloads \cup ListPayloads \cup DictPayloads \cup JsonUniverse

TestObjects ==
    {WebSocketConnection(CONNECTING, None, None, IntV(0), K_X),
     WebSocketConnection(OPEN, P_TEXT, None, IntV(1), K_X),
     WebSocketConnection(CLOSED, None, None, IntV(3), K_X),
     WebSocketConnection(ERROR, P_DICT, Str(<<"Connection refused">>), IntV(3), K_X)}

InitObject ==
    /\ session_state = <<>>
    /\ heap \in {MapPut(<<>>, 1, conn) : conn \in TestObjects}
    /\ nextId = 2
    /\ latest = [k \in {K_X} |-> Ref(1)]
    /\ ctrl = [k \in {K_X} |-> NoController]
    /\ lastCall = NoCall
    /\ owner = <<>>
    /\ queued = [k \in {K_X} |-> "empty"]
    /\ lastSend = NoSend
    /\ lastRead = NoRead

HostSendAny == \E message \in SendUniverse : Send(K_X, message)

NextObject ==
    \/ HostSendAny
    \/ IsOpenCall(K_X)
    \/ ToDictCall(K_X)

SpecObject == InitObject /\ [][NextObject]_vars

\* connect() for one key, with the component reporting any state record, whole
\* or with fields missing.
RecordOf(state, last_message, error, ready_state) ==
    DictV(SelectSeq(<< <<F_STATE, state>>, <<F_LAST_MESSAGE, last_message>>,
                       <<F_ERROR, error>>, <<F_READY_STATE, ready_state>> >>,
                    LAMBDA pair : pair[2] # Absent))

Records ==
    {RecordOf(state, last_message, error, ready_state) :
        state \in {Absent, OPEN, ERROR},
        last_message \in {Absent, None, P_TEXT},
        error \in {Absent, None} \cup ErrorTexts,
        ready_state \in {Absent, IntV(1), IntV(3)}}

InitRecord == InitKeys({K_X})

NextRecord ==
    \E value \in Records \cup {None} :
        ConnectWith(U_WS, K_X, NoOptions, FALSE, MaxObjects, value)

SpecRecord == InitRecord /\ [][NextRecord]_vars

\* connect() for one key with its optional arguments given or left out.
HeaderChoices ==
    {Absent, None, DictV(<< <<Str(<<"Authorization">>), Str(<<"Bearer token123">>)>> >>)}
ProtocolChoices == {Absent, ListV(<<Str(<<"chat">>), Str(<<"superchat">>)>>)}
AutoReconnectChoices == {Absent, BoolV(FALSE)}
ReconnectIntervalChoices == {Absent, IntV(5000), IntV(-1)}
MaxReconnectAttemptsChoices == {Absent, IntV(3)}

Options ==
    [headers : HeaderChoices, protocols : ProtocolChoices,
     auto_reconnect : AutoReconnectChoices,
     reconnect_interval : ReconnectIntervalChoices,
     max_reconnect_attempts : MaxReconnectAttemptsChoices]

InitConfig == InitKeys({K_X})

\* (url, optional arguments): every choice of options with a valid url, and a
\* malformed url.
ConfigCalls == ({U_WS} \X Options) \cup {<<U_MALFORMED, NoOptions>>}

NextConfig ==
    \E call \in ConfigCalls :
        ConnectWith(call[1], K_X, call[2], FALSE, MaxObjects, ComponentValue(ctrl[K_X]))

SpecConfig == InitConfig /\ [][NextConfig]_vars

\* The life of the controllers of two keys: connect() with automatic
\* reconnection on or off, transport events, the reconnect timer and disposal.
InitLifecycle == InitKeys(TwoKeys)

\* (key, auto_reconnect): the second key's connection never reconnects.
LifecycleCalls == {<<K_X, TRUE>>, <<K_X, FALSE>>, <<K_X_SEND, FALSE>>}

HostConnectLifecycle ==
    \E call \in LifecycleCalls :
        Connect(U_WS, call[1], call[2], MaxAttempts, FALSE, MaxObjects)

NextLifecycle ==
    \/ HostConnectLifecycle
    \/ \E k \in DOMAIN ctrl : TransportOpen(k)
    \/ \E k \in DOMAIN ctrl, e \in ErrorTexts : TransportError(k, e)
    \/ \E k \in DOMAIN ctrl : TransportClose(k)
    \/ \E k \in DOMAIN ctrl : ReconnectTimer(k)
    \/ \E k \in DOMAIN ctrl : Dispose(k)

SpecLifecycle == InitLifecycle /\ [][NextLifecycle]_vars

----------------------------------------------------------------------------
(* Properties *)

\* The connection object the connect() call just made returned.
Returned == heap[lastCall.result.v[1]]

\* C1: a connect() call with valid arguments that finds the component's value
\* absent (no transport event reported yet) returns a connection with state
\* CONNECTING, ready_state 0, no last_message and no error.
C1_ConnectingBeforeAnyEvent ==
    lastCall.value_absent =>
        /\ lastCall.outcome = "returned"
        /\ Returned.state = CONNECTING
        /\ Returned.ready_state = IntV(0)
        /\ Returned.last_message = None
        /\ Returned.error = None

C1_Witness ==
    /\ lastCall.value_absent
    /\ lastCall.url = U_WSS
    /\ ctrl[lastCall.key].exists

\* C2: when the host has called send(payload) on the connection returned by the
\* previous connect() for a key, the next connect() for that key passes the
\* payload to the component as send_message.
C2_SendForwardedByNextConnect ==
    (lastCall.invoked /\ lastCall.host_sent # None) =>
        lastCall.send_message = lastCall.host_sent

\* C3: a value in a key's send slot is passed to the component at most once: a
\* connect() passes a send_message only when the slot was written since the
\* previous connect() for that key read it.
C3_SendConsumedAtMostOnce ==
    (lastCall.invoked /\ lastCall.send_message # None) => lastCall.slot = "queued"

C3_Witness ==
    /\ lastCall.invoked
    /\ lastCall.slot = "consumed"
    /\ lastCall.send_message = None

\* C4: after a send(), the connection's _send_queue is exactly the encoded
\* payload of that send, whatever it held before and whatever the state is.
C4_SlotHoldsLatestSend ==
    lastSend.conn # None =>
        heap[lastSend.conn.v[1]]._send_queue = Encode(lastSend.message)

C4_Witness ==
    /\ lastSend.conn # None
    /\ lastSend.before \notin {None, Encode(lastSend.message)}
    /\ heap[lastSend.conn.v[1]].state # OPEN
    /\ heap[lastSend.conn.v[1]]._send_queue = Encode(lastSend.message)

C6_MalformedUrlReportedInSnapshot ==
    lastCall.url = U_MALFORMED =>
        /\ lastCall.outcome = "returned"
        /\ Returned.state = ERROR
        /\ Returned.error # None

C8_KeysIndependent ==
    lastCall.invoked => lastCall.read_owner \in {None, lastCall.key}

\* C9: for every connection connect() returned, is_open() is true exactly when
\* its state is OPEN.
C9_IsOpenIffOpen ==
    \A id \in DOMAIN heap : IsOpen(heap[id]) <=> heap[id].state = OPEN

C9_Witness ==
    /\ lastCall.outcome = "returned"
    /\ IsOpen(Returned)
    /\ Returned.state = OPEN
    /\ Returned.last_message = P_DICT

\* C10: in every connection connect() returned, CONNECTING goes with
\* ready_state 0, OPEN with 1, CLOSING with 2, CLOSED and ERROR with 3.
C10_ReadyStateMirrorsState ==
    \A id \in DOMAIN heap :
        <<heap[id].state, heap[id].ready_state>> \in
            {<<CONNECTING, IntV(0)>>, <<OPEN, IntV(1)>>, <<CLOSING, IntV(2)>>,
             <<CLOSED, IntV(3)>>, <<ERROR, IntV(3)>>}

C10_Witness ==
    /\ lastCall.outcome = "returned"
    /\ ~lastCall.failed
    /\ Returned.state = CLOSED
    /\ Returned.ready_state = IntV(3)

\* The slot of the connection the send() call just made was called on.
SlotAfterSend == heap[lastSend.conn.v[1]]._send_queue

C16_ReadsDoNotMutate ==
    lastRead.op # "none" =>
        /\ heap[lastRead.conn.v[1]] = lastRead.before
        /\ lastRead.previous # None => lastRead.previous = lastRead.result
        /\ lastRead.op = "to_dict" =>
             /\ lastRead.result.t = "dict"
             /\ \A f \in {F_STATE, F_LAST_MESSAGE, F_ERROR, F_READY_STATE} :
                   \E i \in DOMAIN lastRead.result.v : lastRead.result.v[i][1] = f
             /\ DictGet(lastRead.result, F_STATE, None) = lastRead.before.state
             /\ DictGet(lastRead.result, F_LAST_MESSAGE, None) = lastRead.before.last_message
             /\ DictGet(lastRead.result, F_ERROR, None) = lastRead.before.error
             /\ DictGet(lastRead.result, F_READY_STATE, None) = lastRead.before.ready_state
        /\ lastRead.op = "is_open" =>
             lastRead.result = BoolV(lastRead.before.state = OPEN
                                     /\ lastRead.before.ready_state = IntV(1))

C16_Witness ==
    /\ lastRead.op = "to_dict"
    /\ lastRead.previous = lastRead.result
    /\ lastRead.before.last_message = P_TEXT
    /\ lastRead.before._send_queue = JsonDumps(P_DICT)

\* C12: when the host sent {"a": 1} on the snapshot it held and calls
\* connect() with the transport open, the payload's JSON text is transmitted,
\* and once the transport echoes that text, the last_message connect() builds
\* from the published record is the decoded value {"a": 1}.
C12_EchoRoundTrip ==
    (/\ lastCall.invoked
     /\ ~lastCall.failed
     /\ lastCall.host_sent = JsonDumps(P_DICT)
     /\ ctrl[lastCall.key].phase = OPEN) =>
        LET c == ctrl[lastCall.key] IN
        /\ c.wire # None
        /\ FromComponentValue(ComponentValue(OnMessage(c, c.wire)),
                              lastCall.key).last_message = P_DICT

HasField(d, name) == \E i \in DOMAIN d.v : d.v[i][1] = name
FieldOf(d, name) == d.v[CHOOSE i \in DOMAIN d.v : d.v[i][1] = name][2]

\* C14: when the component reports a state record, the returned snapshot's
\* state, last_message, error and ready_state are the record's fields, a
\* missing state reads as CONNECTING, a missing ready_state as 0, a missing
\* last_message or error as None; its key is the key passed and its
\* outbound slot is empty.
C14_SnapshotMirrorsRecord ==
    (lastCall.outcome = "returned" /\ lastCall.value # None) =>
        LET record == lastCall.value IN
        /\ Returned.state = IF HasField(record, F_STATE)
                            THEN FieldOf(record, F_STATE) ELSE CONNECTING
        /\ Returned.ready_state = IF HasField(record, F_READY_STATE)
                                  THEN FieldOf(record, F_READY_STATE) ELSE IntV(0)
        /\ Returned.last_message = IF HasField(record, F_LAST_MESSAGE)
                                   THEN FieldOf(record, F_LAST_MESSAGE) ELSE None
        /\ Returned.error = IF HasField(record, F_ERROR)
                            THEN FieldOf(record, F_ERROR) ELSE None
        /\ Returned._key = lastCall.key
        /\ Returned._send_queue = None

C14_Witness ==
    /\ lastCall.outcome = "returned"
    /\ lastCall.value # None
    /\ ~HasField(lastCall.value, F_STATE)
    /\ ~HasField(lastCall.value, F_READY_STATE)
    /\ HasField(lastCall.value, F_ERROR)
    /\ Returned.state = CONNECTING
    /\ Returned.ready_state = IntV(0)
    /\ Returned.last_message = P_TEXT

\* C15: a connect() call whose arguments pass validation invokes the
\* component, with the url, key, headers, protocols, auto_reconnect,
\* reconnect_interval and max_reconnect_attempts the caller gave; an argument
\* left out is passed as True, 3000 and 5 respectively, headers left out or
\* None as an empty dict, protocols left out or None as an empty list.
C15_ConfigHandedUnchanged ==
    (lastCall.url # None /\ ValidationError(lastCall.url, lastCall.key) = None) =>
        LET given == lastCall.given
            kwargs == lastCall.kwargs
        IN
        /\ lastCall.invoked
        /\ kwargs.url = lastCall.url
        /\ kwargs.key = lastCall.key
        /\ kwargs.headers = IF given.headers \in {Absent, None} THEN DictV(<<>>)
                            ELSE given.headers
        /\ kwargs.protocols = IF given.protocols \in {Absent, None} THEN ListV(<<>>)
                              ELSE given.protocols
        /\ kwargs.auto_reconnect = IF given.auto_reconnect = Absent THEN BoolV(TRUE)
                                   ELSE given.auto_reconnect
        /\ kwargs.reconnect_interval = IF given.reconnect_interval = Absent
                                       THEN IntV(3000) ELSE given.reconnect_interval
        /\ kwargs.max_reconnect_attempts = IF given.max_reconnect_attempts = Absent
                                           THEN IntV(5) ELSE given.max_reconnect_attempts

C15_Witness ==
    /\ lastCall.invoked
    /\ lastCall.given.headers = None
    /\ lastCall.given.protocols = Absent
    /\ lastCall.given.auto_reconnect = BoolV(FALSE)
    /\ lastCall.given.reconnect_interval = Absent
    /\ lastCall.given.max_reconnect_attempts = IntV(3)
    /\ lastCall.kwargs.headers = DictV(<<>>)
    /\ lastCall.kwargs.reconnect_interval = IntV(3000)
    /\ lastCall.kwargs.max_reconnect_attempts = IntV(3)

\* C17: a connect() call that finds a connection stored for its key in
\* session state looks it up and reuses it: the connection it returns is the
\* stored one, not a second one.
C17_StoredConnectionReused ==
    (lastCall.outcome = "returned" /\ lastCall.stored_before # None) =>
        lastCall.result = lastCall.stored_before

C19_NoReconnectWhenDisabled ==
    /\ (lastCall.created /\ lastCall.given.auto_reconnect = BoolV(FALSE)) =>
          ~ctrl[lastCall.key].autoReconnect
    /\ \A k \in DOMAIN ctrl :
          (ctrl[k].exists /\ ~ctrl[k].autoReconnect) =>
              /\ ~ctrl[k].timer
              /\ ctrl[k].attempt = 0
              /\ ctrl[k].published => ctrl[k].phase # CONNECTING
    /\ (/\ lastCall.outcome = "returned"
        /\ lastCall.value # None
        /\ ~ctrl[lastCall.key].autoReconnect) => Returned.state # CONNECTING

C19_Witness ==
    /\ lastCall.outcome = "returned"
    /\ lastCall.given.auto_reconnect = BoolV(FALSE)
    /\ ~ctrl[lastCall.key].autoReconnect
    /\ ctrl[lastCall.key].phase = ERROR
    /\ Returned.state = ERROR
    /\ ~ctrl[lastCall.key].timer

\* C20: disposing a key leaves its transport closed, its reconnect timer
\* cancelled and its pending payload dropped, with nothing more transmitted;
\* while the key stays disposed nothing acts on it, so the timer never fires.
C20_DisposeCancels ==
    [][\A k \in DOMAIN ctrl :
         /\ (ctrl[k].exists /\ ctrl'[k].disposed) =>
               /\ ~ctrl'[k].exists
               /\ ctrl'[k].phase = CLOSED
               /\ ~ctrl'[k].timer
               /\ ctrl'[k].pendingOutbound = None
               /\ ctrl'[k].wire = ctrl[k].wire
         /\ (ctrl[k].disposed /\ ctrl'[k].disposed) => ctrl'[k] = ctrl[k]]_vars

C20_Witness ==
    \E k \in DOMAIN ctrl :
        /\ ctrl[k].disposed
        /\ ctrl[k].cancelled
        /\ ctrl[k].discarded # None
        /\ ~ctrl[k].timer
        /\ ctrl[k].pendingOutbound = None

\* A controller whose reconnect attempts are used up: it made as many as its
\* cap allows, the last one failed, and nothing more is scheduled.
Exhausted(c) ==
    /\ c.exists /\ c.autoReconnect
    /\ c.phase = ERROR
    /\ c.attempt > 0 /\ c.attempt = c.maxReconnectAttempts
    /\ ~c.timer

\* The same controller as it stood after its first error: no attempt made yet,
\* the same error reported, a reconnect scheduled.
AfterFirstError(c) ==
    OnError([c EXCEPT !.phase = OPEN, !.attempt = 0, !.timer = FALSE, !.lastError = None],
            c.lastError)

\* C21: the snapshot connect() returns once the key's reconnect attempts are
\* used up differs from the snapshot it returned after the first, still
\* retriable error.
C21_ExhaustedDistinguishable ==
    (/\ lastCall.outcome = "returned"
     /\ lastCall.value # None
     /\ Exhausted(ctrl[lastCall.key])) =>
        /\ AfterFirstError(ctrl[lastCall.key]).timer
        /\ Returned # FromComponentValue(
                          ComponentValue(AfterFirstError(ctrl[lastCall.key])),
                          lastCall.key)

\* C22: a snapshot connect() returns with state OPEN has no error.
C22_OpenSnapshotHasNoError ==
    (lastCall.outcome = "returned" /\ Returned.state = OPEN) => Returned.error = None

C22_Witness ==
    /\ lastCall.outcome = "returned"
    /\ Returned.state = OPEN
    /\ Returned.error = None
    /\ Returned.last_message = P_TEXT
    /\ ctrl[lastCall.key].lastError = None
    /\ lastCall.stored_before # None

\* C23: after a connect() call for a key that returns a snapshot, session
\* state holds that snapshot under "_websocket_<key>".
C23_SnapshotStoredInSession ==
    lastCall.outcome = "returned" =>
        /\ SessionKey(lastCall.key) \in DOMAIN session_state
        /\ session_state[SessionKey(lastCall.key)] = lastCall.result

C25_SendSlotClearedOnEveryCall ==
    lastCall.invoked =>
        /\ SendKey(lastCall.key) \notin DOMAIN session_state
        /\ (lastCall.failed /\ lastCall.send_message # None) =>
              /\ ctrl[lastCall.key].pendingOutbound # lastCall.send_message
              /\ ctrl[lastCall.key].wire # lastCall.send_message

C25_Witness ==
    /\ lastCall.invoked
    /\ lastCall.failed
    /\ lastCall.send_message # None
    /\ SendKey(lastCall.key) \notin DOMAIN session_state

\* C26: a connect() call that invokes the component passes it a
\* reconnect_interval and a max_reconnect_attempts that are not negative.
C26_NoNegativeReconnectSettings ==
    lastCall.invoked =>
        /\ lastCall.kwargs.reconnect_interval.v[1] >= 0
        /\ lastCall.kwargs.max_reconnect_attempts.v[1] >= 0

\* C27: send() leaves state, last_message, error, ready_state and _key as
\* they were, and stores the payload (text as it is, a dict or list as JSON
\* text) whatever the connection's state is.
C27_SendChangesOnlySlot ==
    lastSend.conn # None =>
        LET conn == heap[lastSend.conn.v[1]]
            was == lastSend.was
        IN
        /\ conn.state = was.state
        /\ conn.last_message = was.last_message
        /\ conn.error = was.error
        /\ conn.ready_state = was.ready_state
        /\ conn._key = was._key
        /\ conn._send_queue # None
        /\ conn._send_queue = IF IsStr(lastSend.message) THEN lastSend.message
                              ELSE JsonDumps(lastSend.message)

C27_Witness ==
    /\ lastSend.conn # None
    /\ lastSend.was.state = CLOSED
    /\ lastSend.was._send_queue = None
    /\ lastSend.message = P_LIST
    /\ heap[lastSend.conn.v[1]].state = CLOSED
    /\ heap[lastSend.conn.v[1]]._send_queue = JsonDumps(P_LIST)

====
